---- MODULE Spec2Model ----
(***************************************************************************)
(* State-machine model of src/App.tsx: the application state controller   *)
(* of the Pokemon Generator Lab (React component App).                     *)
(*                                                                         *)
(* The component is single-threaded and event-driven.  Every async        *)
(* handler runs synchronously up to its next `await`; the awaited store   *)
(* or generation-client call then completes (returns or raises) in a      *)
(* later step, and the handler continues up to the following await.  One  *)
(* action of the model is one such run-to-suspension segment.             *)
(*                                                                         *)
(* A handler is a closure of the render in which it was created: a plain  *)
(* read of `tokenBalance` or `pokemons` inside it yields the value of     *)
(* that render for the whole life of the workflow, while a functional     *)
(* update setPokemons(prev => ...) reads the current state.  The model    *)
(* keeps the captured values in the workflow records.                     *)
(*                                                                         *)
(* External collaborators (not under src/): indexedDbService (the local   *)
(* store, variables dbPokemons/dbBalance), pokemonApiService and          *)
(* GoogleGenAI (each call succeeds or raises, chosen nondeterministically)*)
(* and the Modal/Button widgets.  The Modal holds one confirmation at a    *)
(* time and disables both its buttons while isLoading; the page's own     *)
(* controls stay usable while it is open.                                  *)
(*                                                                         *)
(* Four specifications share the variables.  Spec is the controller with   *)
(* its workflows; there a pending timer is known only through the message  *)
(* it will clear.  FairSpec is Spec with every awaited call eventually     *)
(* settling.  NotifySpec follows showMessage and its timers one by         *)
(* one, with the callers abstracted.  RenderSpec applies the display       *)
(* ordering and the economy rules to inputs drawn from bounded sets.       *)
(***************************************************************************)
EXTENDS Integers, Sequences, FiniteSets, Bags, TLC

VARIABLES
    pokemons,                           \* useState<Pokemon[]>            (l.40)
    tokenBalance,                       \* useState<number>               (l.41)
    isLoading,                          \* l.42
    isGeneratingPokemon,                \* l.43
    isGeneratingEvolutionForPokemonId,  \* l.44, 0 models null
    message,                            \* l.45
    sortOrder,                          \* l.46
    isModalOpen,                        \* l.49
    modalTitle,                         \* l.50
    modalContent,                       \* l.51, 0 models null
    modalOnConfirm,                     \* l.52, the onConfirmAction closure
    isModalConfirmLoading,              \* l.53
    pokemonToResellId,                  \* l.54, 0 models null
    dbPokemons,                         \* local store: the creature records
    dbBalance,                          \* local store: the token balance
    nextId,                             \* next identity the generation client assigns
    starts,                             \* user actions counted against MaxStarts
    load,                               \* the fetchAppData run started on mount
    gen,                                \* the handleGeneratePokemon run
    genLog,                             \* store writes / client calls of the run in flight
    evo,                                \* the handleGenerateEvolution runs in flight (a bag)
    resell,                             \* the onConfirmAction run
    storeFailed,                        \* history: some store call has raised
    creditedIds,                        \* history: identities a committed resell credited
    timers,                             \* pending setTimeout callbacks of showMessage, oldest first
    calls,                              \* showMessage calls made so far
    view                                \* what the last render computed (l.272-289, l.388-389)

vars == << pokemons, tokenBalance, isLoading, isGeneratingPokemon,
           isGeneratingEvolutionForPokemonId, message, sortOrder, isModalOpen,
           modalTitle, modalContent, modalOnConfirm, isModalConfirmLoading,
           pokemonToResellId, dbPokemons, dbBalance, nextId, starts, load, gen,
           genLog, evo, resell, storeFailed, creditedIds, timers, calls,
           view >>

(***************************************************************************)
(* Bounds of the model.                                                    *)
(***************************************************************************)
MaxStarts == 2        \* generations, evolutions and sort changes the user starts

MaxCalls == 4         \* showMessage calls in the notification specification

MaxLen == 3           \* longest collection given to the display ordering

GenRarities == {"S+"}        \* tiers the generation client returns here

(***************************************************************************)
(* Program constants and pure functions.                                   *)
(***************************************************************************)
GENERATION_COST == 10

Rarities == {"F", "E", "D", "C", "B", "A", "S", "S+"}

OWNED  == "owned"
RESOLD == "resold"

\* mutant of getRarityResellValue: every rarity takes the default branch
FlatResellValue(rarity) == 1

\* l.14-26
getRarityResellValue(rarity) ==
    CASE rarity = "S+" -> 25
      [] rarity = "S"  -> 15
      [] rarity = "A"  -> 10
      [] rarity = "B"  -> 5
      [] rarity = "C"  -> 4
      [] rarity = "D"  -> 3
      [] rarity = "E"  -> 2
      [] rarity = "F"  -> 1
      [] OTHER         -> 1

rarityOrderMap(rarity) ==
    CASE rarity = "S+" -> 7
      [] rarity = "S"  -> 6
      [] rarity = "A"  -> 5
      [] rarity = "B"  -> 4
      [] rarity = "C"  -> 3
      [] rarity = "D"  -> 2
      [] rarity = "E"  -> 1
      [] rarity = "F"  -> 0

SortModes == {"date-desc", "date-asc", "rarity-desc", "rarity-asc",
              "name-asc", "name-desc"}

(***************************************************************************)
(* Records.  A creature is [id, rarity, status, evolution]; evolution 0   *)
(* is "no evolution", 1 an attached evolution sub-record.                 *)
(***************************************************************************)
NoPokemon == [id |-> 0, rarity |-> "F", status |-> OWNED, evolution |-> 0]

NewPokemon(id, rarity) ==
    [id |-> id, rarity |-> rarity, status |-> OWNED, evolution |-> 0]

NoMessage == [type |-> "none", text |-> ""]

Msg(type, text) == [type |-> type, text |-> text]

NoClosure == [set |-> FALSE, pokemonToResell |-> NoPokemon, tokenBalance |-> 0]

LoadDone == [pc |-> "done"]

GenIdle ==
    [pc |-> "idle", originalTokenBalance |-> 0, newPokemon |-> NoPokemon,
     failedAt |-> "", credited |-> FALSE]

\* a handleGenerateEvolution run: the call it awaits and its `pokemon` argument
EvoRun(pc, pokemon) == [pc |-> pc, pokemon |-> pokemon]

ResellIdle ==
    [pc |-> "idle", updatedPokemon |-> NoPokemon, newBalance |-> 0,
     confirmBalance |-> 0]

(***************************************************************************)
(* Helpers on the collection and the store.                                *)
(***************************************************************************)
Ids(seq) == {seq[i].id : i \in 1..Len(seq)}

\* pokemons.find(p => p.id === id), for an id that is present
Find(seq, id) == seq[CHOOSE i \in 1..Len(seq) : seq[i].id = id]

\* mutant of ReplaceById: the map forgets the identity test
ReplaceAll(seq, updated) == [i \in 1..Len(seq) |-> updated]

\* prevPokemons.map(p => p.id === updated.id ? updated : p)
ReplaceById(seq, updated) ==
    [i \in 1..Len(seq) |-> IF seq[i].id = updated.id THEN updated ELSE seq[i]]

\* indexedDbService.updatePokemon: replace by identity, full record
DbPut(db, updated) == {q \in db : q.id # updated.id} \cup {updated}

DbIds == {q.id : q \in dbPokemons}

DbGet(id) == CHOOSE q \in dbPokemons : q.id = id

\* indexedDbService.getPokemons: every stored record, in identity order
RECURSIVE DbList(_)
DbList(db) ==
    IF db = {} THEN << >>
    ELSE LET q == CHOOSE x \in db : \A y \in db : x.id <= y.id
         IN  << q >> \o DbList(db \ {q})

\* the user may start one more generation, evolution or sort change
CanStart == starts < MaxStarts

\* the page's controls respond: data loaded (l.338, l.377); an open dialog
\* does not keep the user from the page's controls
PageActive == ~isLoading

\* the confirmation gate: one confirmation pending at a time
ModalGate == ~isModalOpen

\* the dialog's Resell and Cancel buttons respond: the busy flag is clear
ModalControlsEnabled == ~isModalConfirmLoading

(***************************************************************************)
(* showMessage (l.57-63): set the notification and start its 5 s timer.   *)
(* The timers are never cancelled (the cleanup l.62 returns is unused),    *)
(* so while a notification is shown the timer it started is pending: in   *)
(* Spec the callback may run whenever a notification is shown (TimerFire); *)
(* NotifySpec keeps the queue of timers (ShowMessageCall, TimeoutFires).   *)
(***************************************************************************)
showMessage(type, text) ==
    /\ message' = Msg(type, text)

modalVars == << isModalOpen, modalTitle, modalContent, modalOnConfirm,
               isModalConfirmLoading, pokemonToResellId >>

storeVars == << dbPokemons, dbBalance >>

msgVars == << message >>

\* the rendering and the timer queue, which no handler reads
sideVars == << timers, calls, view >>

\* the state of the workflows, which neither a timer nor a render changes
workflowVars == << tokenBalance, isLoading, isGeneratingPokemon,
                   isGeneratingEvolutionForPokemonId, modalVars, storeVars,
                   nextId, starts, load, gen, genLog, evo, resell,
                   storeFailed, creditedIds >>

\* nothing rendered or evaluated yet
NoView ==
    [sortedPokemons |-> << >>, rarities |-> << >>, resellValues |-> << >>,
     ranks |-> << >>]

(***************************************************************************)
(* Initial state: the component has just mounted (useState initial values, *)
(* l.40-54) and the mount effect has called fetchAppData (l.83-85), which  *)
(* set isLoading and awaits getPokemons.  The store holds what an earlier  *)
(* session left: a balance and up to two owned creatures.                  *)
(***************************************************************************)
InitStores ==
    { [balance |-> 5,  pokemons |-> {}],
      [balance |-> 10, pokemons |-> {NewPokemon(1, "A"), NewPokemon(2, "S+")}] }

Init ==
    /\ pokemons = << >>
    /\ tokenBalance = 0
    /\ isLoading = TRUE
    /\ isGeneratingPokemon = FALSE
    /\ isGeneratingEvolutionForPokemonId = 0
    /\ message = NoMessage
    /\ sortOrder = "date-desc"
    /\ isModalOpen = FALSE
    /\ modalTitle = ""
    /\ modalContent = 0
    /\ modalOnConfirm = NoClosure
    /\ isModalConfirmLoading = FALSE
    /\ pokemonToResellId = 0
    /\ \E store \in InitStores :
         /\ dbPokemons = store.pokemons
         /\ dbBalance = store.balance
    /\ nextId = Cardinality(dbPokemons) + 1
    /\ starts = 0
    /\ load = [pc |-> "getPokemons"]
    /\ gen = GenIdle
    /\ genLog = << >>
    /\ evo = EmptyBag
    /\ resell = ResellIdle
    /\ storeFailed = FALSE
    /\ creditedIds = {}
    /\ timers = << >>
    /\ calls = 0
    /\ view = NoView

(***************************************************************************)
(* fetchAppData (l.65-81).                                                 *)
(***************************************************************************)
\* catch + finally of fetchAppData (l.74-79)
FetchFailed ==
    /\ showMessage("error", "loadFailed")
    /\ isLoading' = FALSE
    /\ load' = LoadDone

\* await indexedDbService.getPokemons() settles (l.68-69)
FetchGetPokemons ==
    /\ load.pc = "getPokemons"
    /\ \E ok \in BOOLEAN :
         /\ storeFailed' = (storeFailed \/ ~ok)
         /\ IF ok
            THEN /\ pokemons' = DbList(dbPokemons)
                 /\ load' = [pc |-> "getTokenBalance"]
                 /\ UNCHANGED << isLoading, msgVars >>
            ELSE /\ FetchFailed
                 /\ UNCHANGED pokemons
    /\ UNCHANGED << tokenBalance, isGeneratingPokemon,
                    isGeneratingEvolutionForPokemonId, sortOrder, modalVars,
                    storeVars, nextId, starts, gen, genLog, evo, resell >>
    /\ UNCHANGED sideVars
    /\ UNCHANGED creditedIds

\* await indexedDbService.getTokenBalance() settles (l.71-73, 77-79)
FetchGetTokenBalance ==
    /\ load.pc = "getTokenBalance"
    /\ \E ok \in BOOLEAN :
         /\ storeFailed' = (storeFailed \/ ~ok)
         /\ IF ok
            THEN /\ tokenBalance' = dbBalance
                 /\ message' = NoMessage
                 /\ isLoading' = FALSE
                 /\ load' = LoadDone
            ELSE /\ FetchFailed
                 /\ UNCHANGED tokenBalance
    /\ UNCHANGED << pokemons, isGeneratingPokemon,
                    isGeneratingEvolutionForPokemonId, sortOrder, modalVars,
                    storeVars, nextId, starts, gen, genLog, evo, resell >>
    /\ UNCHANGED sideVars
    /\ UNCHANGED creditedIds

(***************************************************************************)
(* handleGeneratePokemon (l.87-117).  The generate button is disabled      *)
(* while isGeneratingPokemon or isLoading (l.338); the balance test of    *)
(* l.338 is the handler's own test of l.88, which the model keeps in the  *)
(* handler.                                                                *)
(***************************************************************************)
\* mutant of InsufficientTokens: the handler only refuses an empty balance
InsufficientTokensWhenEmpty(balance) == balance <= 0

\* l.88: tokenBalance < GENERATION_COST
InsufficientTokens(balance) == balance < GENERATION_COST

\* mutant of DeductedBalance: the cost is charged twice
DeductedTwice(original) == original - 2 * GENERATION_COST

\* l.98: const newBalanceAfterDeduction = originalTokenBalance - GENERATION_COST
DeductedBalance(original) == original - GENERATION_COST

\* l.110: const revertedBalance = originalTokenBalance
RevertedBalance(original) == original

\* mutant of Prepend: the new record is appended, [...prev, newPokemon]
AppendLast(newPokemon, prevPokemons) == prevPokemons \o << newPokemon >>

\* l.104: setPokemons(prev => [newPokemon, ...prev])
Prepend(newPokemon, prevPokemons) == << newPokemon >> \o prevPokemons

GenerateEnabled ==
    /\ PageActive
    /\ ~isGeneratingPokemon
    /\ gen.pc = "idle"

\* l.88-91: not enough tokens, warn and return
GenerateInsufficient ==
    /\ GenerateEnabled
    /\ InsufficientTokens(tokenBalance)
    /\ showMessage("warning", "insufficient")
    /\ genLog' = << >>
    /\ UNCHANGED << pokemons, tokenBalance, isLoading, isGeneratingPokemon,
                    isGeneratingEvolutionForPokemonId, sortOrder, modalVars,
                    storeVars, nextId, starts, load, gen, evo, resell >>
    /\ UNCHANGED << storeFailed, sideVars >>
    /\ UNCHANGED creditedIds

\* l.93-100: flag, capture the balance, debit in memory, issue the store write
GenerateStart ==
    /\ GenerateEnabled
    /\ ~InsufficientTokens(tokenBalance)
    /\ CanStart
    /\ isGeneratingPokemon' = TRUE
    /\ tokenBalance' = DeductedBalance(tokenBalance)
    /\ gen' = [pc |-> "updateTokenBalance", originalTokenBalance |-> tokenBalance,
               newPokemon |-> NoPokemon, failedAt |-> "", credited |-> FALSE]
    /\ genLog' = << >>
    /\ starts' = starts + 1
    /\ UNCHANGED << pokemons, isLoading, isGeneratingEvolutionForPokemonId,
                    msgVars, sortOrder, modalVars, storeVars, nextId, load, evo, resell >>
    /\ UNCHANGED << storeFailed, sideVars >>
    /\ UNCHANGED creditedIds

\* l.107-112: catch, restore the in-memory balance, issue the rollback write
GenerateCatch(at) ==
    /\ tokenBalance' = RevertedBalance(gen.originalTokenBalance)
    /\ gen' = [gen EXCEPT !.pc = "rollback", !.failedAt = at]

\* l.100 settles; on success l.102 calls the generation client
GenerateDebitDone ==
    /\ gen.pc = "updateTokenBalance"
    /\ \E ok \in BOOLEAN :
         /\ storeFailed' = (storeFailed \/ ~ok)
         /\ IF ok
            THEN /\ dbBalance' = DeductedBalance(gen.originalTokenBalance)
                 /\ genLog' = genLog \o << <<"updateTokenBalance", dbBalance'>>,
                                           <<"generatePokemon", 0>> >>
                 /\ gen' = [gen EXCEPT !.pc = "generatePokemon"]
                 /\ UNCHANGED tokenBalance
            ELSE /\ GenerateCatch("updateTokenBalance")
                 /\ UNCHANGED << dbBalance, genLog >>
    /\ UNCHANGED << pokemons, isLoading, isGeneratingPokemon,
                    isGeneratingEvolutionForPokemonId, msgVars, sortOrder,
                    modalVars, dbPokemons, nextId, starts, load, evo, resell >>
    /\ UNCHANGED sideVars
    /\ UNCHANGED creditedIds

\* l.102 settles; on success l.103 issues the store write of the new record
GenerateApiDone ==
    /\ gen.pc = "generatePokemon"
    /\ \E ok \in BOOLEAN, r \in GenRarities :
         IF ok
         THEN /\ gen' = [gen EXCEPT !.pc = "addPokemon",
                                    !.newPokemon = NewPokemon(nextId, r)]
              /\ nextId' = nextId + 1
              /\ UNCHANGED tokenBalance
         ELSE /\ GenerateCatch("generatePokemon")
              /\ UNCHANGED nextId
    /\ UNCHANGED << pokemons, isLoading, isGeneratingPokemon,
                    isGeneratingEvolutionForPokemonId, msgVars, sortOrder,
                    modalVars, storeVars, starts, genLog, load, evo,
                    resell >>
    /\ UNCHANGED << storeFailed, sideVars >>
    /\ UNCHANGED creditedIds

\* l.103 settles; on success l.104-105 and the finally of l.115
GenerateAddDone ==
    /\ gen.pc = "addPokemon"
    /\ \E ok \in BOOLEAN :
         /\ storeFailed' = (storeFailed \/ ~ok)
         /\ IF ok
            THEN /\ dbPokemons' = dbPokemons \cup {gen.newPokemon}
                 /\ genLog' = << >>
                 /\ pokemons' = Prepend(gen.newPokemon, pokemons)
                 /\ showMessage("success", "generated")
                 /\ isGeneratingPokemon' = FALSE
                 /\ gen' = GenIdle
                 /\ UNCHANGED tokenBalance
            ELSE /\ GenerateCatch("addPokemon")
                 /\ UNCHANGED << dbPokemons, genLog, pokemons, msgVars,
                                 isGeneratingPokemon >>
    /\ UNCHANGED << isLoading, isGeneratingEvolutionForPokemonId, sortOrder,
                    modalVars, dbBalance, nextId, starts, load, evo,
                    resell >>
    /\ UNCHANGED sideVars
    /\ UNCHANGED creditedIds

\* l.112 settles; on success l.113; either way the finally of l.115.
\* A raise of l.112 leaves the catch block: no notification is shown.
GenerateRollbackDone ==
    /\ gen.pc = "rollback"
    /\ \E ok \in BOOLEAN :
         /\ storeFailed' = (storeFailed \/ ~ok)
         /\ IF ok
            THEN /\ dbBalance' = RevertedBalance(gen.originalTokenBalance)
                 /\ showMessage("error", "refunded")
            ELSE UNCHANGED << dbBalance, msgVars >>
    /\ genLog' = << >>
    /\ gen' = GenIdle
    /\ isGeneratingPokemon' = FALSE
    /\ UNCHANGED << pokemons, tokenBalance, isLoading,
                    isGeneratingEvolutionForPokemonId, sortOrder, modalVars,
                    dbPokemons, nextId, starts, load, evo, resell >>
    /\ UNCHANGED sideVars
    /\ UNCHANGED creditedIds

(***************************************************************************)
(* handleGenerateEvolution (l.119-193).  The evolve control is rendered    *)
(* for an owned creature (l.432) and disabled while the in-flight marker   *)
(* names it (l.436).  `pokemon` is the record of the render clicked on.    *)
(***************************************************************************)
\* l.422 / l.436: disabled={isGeneratingEvolutionForPokemonId === pokemon.id}
ControlDisabled(id) == isGeneratingEvolutionForPokemonId = id

\* the run e continues to its next await / settles
EvoAdvance(e, pc) == (evo (-) SetToBag({e})) (+) SetToBag({EvoRun(pc, e.pokemon)})

EvoSettle(e) == evo (-) SetToBag({e})

\* l.120-128: set the marker, issue the text call
EvolveStart ==
    /\ PageActive
    /\ CanStart
    /\ \E i \in 1..Len(pokemons) :
         /\ pokemons[i].status = OWNED
         /\ ~ControlDisabled(pokemons[i].id)
         /\ isGeneratingEvolutionForPokemonId' = pokemons[i].id
         /\ evo' = evo (+) SetToBag({EvoRun("generateContent", pokemons[i])})
    /\ starts' = starts + 1
    /\ UNCHANGED << pokemons, tokenBalance, isLoading, isGeneratingPokemon,
                    msgVars, sortOrder, modalVars, storeVars, nextId, load, gen, genLog, resell >>
    /\ UNCHANGED << storeFailed, sideVars >>
    /\ UNCHANGED creditedIds

\* mutant of EvolveFailed: the catch attaches the evolution in memory
EvolveFailedAttaches(e) ==
    /\ showMessage("error", "evolveFailed")
    /\ isGeneratingEvolutionForPokemonId' = 0
    /\ evo' = EvoSettle(e)
    /\ pokemons' = [i \in 1..Len(pokemons) |->
                      IF pokemons[i].id = e.pokemon.id
                      THEN [pokemons[i] EXCEPT !.evolution = 1]
                      ELSE pokemons[i]]
    /\ UNCHANGED dbPokemons

\* mutant of EvolveFailed: the catch without the finally, the marker stays
EvolveFailedKeepsMarker(e) ==
    /\ showMessage("error", "evolveFailed")
    /\ evo' = EvoSettle(e)
    /\ UNCHANGED << isGeneratingEvolutionForPokemonId, pokemons, dbPokemons >>

\* l.187-192: catch, error notification, finally clear the marker
EvolveFailed(e) ==
    /\ showMessage("error", "evolveFailed")
    /\ isGeneratingEvolutionForPokemonId' = 0
    /\ evo' = EvoSettle(e)
    /\ UNCHANGED << pokemons, dbPokemons >>

\* l.128 settles and l.149 parses; on success l.159 issues the image call
EvolveTextDone ==
    /\ \E e \in BagToSet(evo), res \in {"ok", "raise", "badJson"} :
         /\ e.pc = "generateContent"
         /\ IF res = "ok"
            THEN /\ evo' = EvoAdvance(e, "generateImages")
                 /\ UNCHANGED << pokemons, dbPokemons, msgVars,
                                 isGeneratingEvolutionForPokemonId >>
            ELSE EvolveFailed(e)
    /\ UNCHANGED << tokenBalance, isLoading, isGeneratingPokemon, sortOrder,
                    modalVars, dbBalance, nextId, starts, load, gen, genLog,
                    resell >>
    /\ UNCHANGED << storeFailed, sideVars >>
    /\ UNCHANGED creditedIds

\* l.179: const updatedPokemon = { ...pokemon, evolution: newEvolution }
EvolvedPokemon(pokemon) == [pokemon EXCEPT !.evolution = 1]

\* l.159 settles; on success l.169-180 build the record and issue the update
EvolveImageDone ==
    /\ \E e \in BagToSet(evo), ok \in BOOLEAN :
         /\ e.pc = "generateImages"
         /\ IF ok
            THEN /\ evo' = EvoAdvance(e, "updatePokemon")
                 /\ UNCHANGED << pokemons, dbPokemons, msgVars,
                                 isGeneratingEvolutionForPokemonId >>
            ELSE EvolveFailed(e)
    /\ UNCHANGED << tokenBalance, isLoading, isGeneratingPokemon, sortOrder,
                    modalVars, dbBalance, nextId, starts, load, gen, genLog,
                    resell >>
    /\ UNCHANGED << storeFailed, sideVars >>
    /\ UNCHANGED creditedIds

\* l.180 settles; on success l.182-185; either way the finally of l.191
EvolveUpdateDone ==
    /\ \E e \in BagToSet(evo), ok \in BOOLEAN :
         /\ e.pc = "updatePokemon"
         /\ storeFailed' = (storeFailed \/ ~ok)
         /\ IF ok
            THEN /\ dbPokemons' = DbPut(dbPokemons, EvolvedPokemon(e.pokemon))
                 /\ pokemons' = ReplaceById(pokemons, EvolvedPokemon(e.pokemon))
                 /\ showMessage("success", "evolved")
                 /\ isGeneratingEvolutionForPokemonId' = 0
                 /\ evo' = EvoSettle(e)
            ELSE EvolveFailed(e)
    /\ UNCHANGED << tokenBalance, isLoading, isGeneratingPokemon, sortOrder,
                    modalVars, dbBalance, nextId, starts, load, gen, genLog,
                    resell >>
    /\ UNCHANGED sideVars
    /\ UNCHANGED creditedIds

(***************************************************************************)
(* closeModal (l.196-203), handleResellConfirmation (l.205-255) and its    *)
(* onConfirmAction (l.223-252).                                            *)
(***************************************************************************)
\* mutant of closeModal: the pending identity and the closure are kept
closeModalKeepsPending ==
    /\ isModalOpen' = FALSE
    /\ modalTitle' = ""
    /\ modalContent' = 0
    /\ isModalConfirmLoading' = FALSE
    /\ UNCHANGED << pokemonToResellId, modalOnConfirm >>

\* l.196-203
closeModal ==
    /\ isModalOpen' = FALSE
    /\ pokemonToResellId' = 0
    /\ modalTitle' = ""
    /\ modalContent' = 0
    /\ modalOnConfirm' = NoClosure
    /\ isModalConfirmLoading' = FALSE

\* The dialog's Cancel / close control (l.480)
CancelModal ==
    /\ isModalOpen
    /\ ModalControlsEnabled
    /\ closeModal
    /\ UNCHANGED << pokemons, tokenBalance, isLoading, isGeneratingPokemon,
                    isGeneratingEvolutionForPokemonId, msgVars, sortOrder,
                    storeVars, nextId, starts, load, gen, genLog, evo,
                    resell >>
    /\ UNCHANGED << storeFailed, sideVars >>
    /\ UNCHANGED creditedIds

\* The closure built at l.223-252 reads `pokemons` and `tokenBalance` of the
\* render in which handleResellConfirmation ran; of `pokemons` it uses only
\* pokemons.find(p => p.id === pokemonId) (l.227).
ConfirmClosure(id) ==
    [set |-> TRUE, pokemonToResell |-> Find(pokemons, id),
     tokenBalance |-> tokenBalance]

\* l.205-255, clicked on the resell control of an owned creature (l.416-422).
\* The creature is in `pokemons`, so the not-found return of l.207-210 is
\* not taken.
ResellClick ==
    /\ PageActive
    /\ ModalGate
    /\ \E i \in 1..Len(pokemons) :
         /\ pokemons[i].status = OWNED
         /\ ~ControlDisabled(pokemons[i].id)
         /\ pokemonToResellId' = pokemons[i].id
         /\ modalTitle' = "Resell"
         /\ modalContent' = getRarityResellValue(pokemons[i].rarity)
         /\ modalOnConfirm' = ConfirmClosure(pokemons[i].id)
         /\ isModalOpen' = TRUE
    /\ UNCHANGED << pokemons, tokenBalance, isLoading, isGeneratingPokemon,
                    isGeneratingEvolutionForPokemonId, msgVars, sortOrder,
                    isModalConfirmLoading, storeVars, nextId, starts, load, gen, genLog, evo, resell >>
    /\ UNCHANGED << storeFailed, sideVars >>
    /\ UNCHANGED creditedIds

\* l.229: const updatedPokemon = { ...pokemonToResell, status: RESOLD }
ResoldPokemon(pokemon) == [pokemon EXCEPT !.status = RESOLD]

\* mutant of CreditedBalance: the resale value is subtracted
DebitedOnResell(balance, pokemon) == balance - getRarityResellValue(pokemon.rarity)

\* l.233: const newBalance = tokenBalance + currentResellValue
CreditedBalance(balance, pokemon) == balance + getRarityResellValue(pokemon.rarity)

\* l.225-230: the dialog's Resell button: busy flag, build the record, issue
\* the store update
ConfirmResell ==
    /\ isModalOpen
    /\ ModalControlsEnabled
    /\ modalOnConfirm.set
    /\ resell.pc = "idle"
    /\ isModalConfirmLoading' = TRUE
    /\ resell' = [pc |-> "updatePokemon",
                  updatedPokemon |-> ResoldPokemon(modalOnConfirm.pokemonToResell),
                  newBalance |-> 0, confirmBalance |-> tokenBalance]
    /\ UNCHANGED << pokemons, tokenBalance, isLoading, isGeneratingPokemon,
                    isGeneratingEvolutionForPokemonId, msgVars, sortOrder,
                    isModalOpen, modalTitle, modalContent, modalOnConfirm,
                    pokemonToResellId, storeVars, nextId, starts, load,
                    gen, genLog, evo >>
    /\ UNCHANGED << storeFailed, sideVars >>
    /\ UNCHANGED creditedIds

\* mutant of ResellFailed: the catch without the finally, the dialog stays
ResellFailedStaysOpen ==
    /\ showMessage("error", "resellFailed")
    /\ UNCHANGED modalVars
    /\ resell' = ResellIdle

\* l.244-250: catch, error notification, finally close the dialog
ResellFailed ==
    /\ showMessage("error", "resellFailed")
    /\ closeModal
    /\ resell' = ResellIdle

\* l.230 settles; on success l.232-234 compute the credit and issue the
\* balance write
ResellUpdateDone ==
    /\ resell.pc = "updatePokemon"
    /\ \E ok \in BOOLEAN :
         /\ storeFailed' = (storeFailed \/ ~ok)
         /\ IF ok
            THEN /\ dbPokemons' = DbPut(dbPokemons, resell.updatedPokemon)
                 /\ resell' = [resell EXCEPT
                                 !.pc = "updateTokenBalance",
                                 !.newBalance = CreditedBalance(modalOnConfirm.tokenBalance,
                                                                resell.updatedPokemon)]
                 /\ UNCHANGED << msgVars, modalVars >>
            ELSE /\ ResellFailed
                 /\ UNCHANGED dbPokemons
    /\ UNCHANGED << pokemons, tokenBalance, isLoading, isGeneratingPokemon,
                    isGeneratingEvolutionForPokemonId, sortOrder, dbBalance,
                    nextId, starts, load, gen, genLog, evo >>
    /\ UNCHANGED sideVars
    /\ UNCHANGED creditedIds

\* l.234 settles; on success l.237-242; either way the finally of l.247-250
ResellBalanceDone ==
    /\ resell.pc = "updateTokenBalance"
    /\ \E ok \in BOOLEAN :
         /\ storeFailed' = (storeFailed \/ ~ok)
         /\ IF ok
            THEN /\ dbBalance' = resell.newBalance
                 /\ pokemons' = ReplaceById(pokemons, resell.updatedPokemon)
                 /\ tokenBalance' = resell.newBalance
                 /\ showMessage("success", "resold")
                 /\ closeModal
                 /\ resell' = ResellIdle
                 /\ creditedIds' = creditedIds \cup {resell.updatedPokemon.id}
                 /\ gen' = IF gen.pc = "idle" THEN gen
                           ELSE [gen EXCEPT !.credited = TRUE]
            ELSE /\ ResellFailed
                 /\ UNCHANGED << dbBalance, pokemons, tokenBalance, gen,
                                 creditedIds >>
    /\ UNCHANGED << isLoading, isGeneratingPokemon,
                    isGeneratingEvolutionForPokemonId, sortOrder, dbPokemons,
                    nextId, starts, load, genLog, evo >>
    /\ UNCHANGED sideVars

(***************************************************************************)
(* Notifications and the sort selector.                                    *)
(***************************************************************************)
\* The timer callback of l.59-61
TimerFire ==
    /\ message # NoMessage
    /\ message' = NoMessage
    /\ UNCHANGED << pokemons, tokenBalance, isLoading, isGeneratingPokemon,
                    isGeneratingEvolutionForPokemonId, sortOrder, modalVars,
                    storeVars, nextId, starts, load, gen, genLog, evo,
                    resell >>
    /\ UNCHANGED << storeFailed, sideVars >>
    /\ UNCHANGED creditedIds

\* The notification's dismiss button (l.307)
DismissMessage ==
    /\ message # NoMessage
    /\ message' = NoMessage
    /\ UNCHANGED << pokemons, tokenBalance, isLoading, isGeneratingPokemon,
                    isGeneratingEvolutionForPokemonId, sortOrder,
                    modalVars, storeVars, nextId, starts, load, gen,
                    genLog, evo, resell >>
    /\ UNCHANGED << storeFailed, sideVars >>
    /\ UNCHANGED creditedIds

\* The sort selector (l.357-372), shown when there is more than one creature
SetSortOrder ==
    /\ PageActive
    /\ Len(pokemons) > 1
    /\ CanStart
    /\ \E m \in SortModes : m # sortOrder /\ sortOrder' = m
    /\ starts' = starts + 1
    /\ UNCHANGED << pokemons, tokenBalance, isLoading, isGeneratingPokemon,
                    isGeneratingEvolutionForPokemonId, msgVars, modalVars,
                    storeVars, nextId, load, gen, genLog, evo, resell >>
    /\ UNCHANGED << storeFailed, sideVars >>
    /\ UNCHANGED creditedIds

Next ==
    \/ FetchGetPokemons
    \/ FetchGetTokenBalance
    \/ GenerateInsufficient
    \/ GenerateStart
    \/ GenerateDebitDone
    \/ GenerateApiDone
    \/ GenerateAddDone
    \/ GenerateRollbackDone
    \/ EvolveStart
    \/ EvolveTextDone
    \/ EvolveImageDone
    \/ EvolveUpdateDone
    \/ ResellClick
    \/ CancelModal
    \/ ConfirmResell
    \/ ResellUpdateDone
    \/ ResellBalanceDone
    \/ TimerFire
    \/ DismissMessage
    \/ SetSortOrder

Spec == Init /\ [][Next]_vars

\* every call into the local store or the generation client that a workflow
\* awaits eventually returns or raises
CallsSettle ==
    /\ WF_vars(FetchGetPokemons)
    /\ WF_vars(FetchGetTokenBalance)
    /\ WF_vars(GenerateDebitDone)
    /\ WF_vars(GenerateApiDone)
    /\ WF_vars(GenerateAddDone)
    /\ WF_vars(GenerateRollbackDone)
    /\ WF_vars(EvolveTextDone)
    /\ WF_vars(EvolveImageDone)
    /\ WF_vars(EvolveUpdateDone)
    /\ WF_vars(ResellUpdateDone)
    /\ WF_vars(ResellBalanceDone)

\* the controller under that assumption; the user's actions are not forced
FairSpec == Init /\ [][Next]_vars /\ CallsSettle

(***************************************************************************)
(* The notification and its timers (l.57-63, l.307), with the identity of  *)
(* each timer.  showMessage sets the message and starts a 5 s timer whose  *)
(* callback sets the message to null.  The cleanup function showMessage    *)
(* returns is used by none of its callers (l.76, 89, 105, 113, 185, 189,  *)
(* 208, 242, 246), so no timer is ever cancelled; all timers have the      *)
(* same delay, so they fire in the order they were started.  A timer is    *)
(* named by the number of the showMessage call that started it.  The       *)
(* callers are abstracted: at any moment some handler may call showMessage *)
(* with the type and text of its call site.                                *)
(***************************************************************************)
CallSites ==
    { << "error", "loadFailed" >>, << "warning", "insufficient" >>,
      << "success", "generated" >>, << "error", "refunded" >>,
      << "success", "evolved" >>, << "error", "evolveFailed" >>,
      << "error", "notFound" >>, << "success", "resold" >>,
      << "error", "resellFailed" >> }

\* l.57-63: setMessage({type, text}); setTimeout(() => setMessage(null), 5000)
ShowMessageCall ==
    /\ calls < MaxCalls
    /\ \E c \in CallSites : showMessage(c[1], c[2])
    /\ calls' = calls + 1
    /\ timers' = Append(timers, calls + 1)
    /\ UNCHANGED << workflowVars, pokemons, sortOrder, view >>

\* mutant of TimeoutFires: the callback leaves the message
TimeoutKeepsMessage ==
    /\ timers # << >>
    /\ timers' = Tail(timers)
    /\ UNCHANGED << message, calls, workflowVars, pokemons, sortOrder, view >>

\* l.59-61: the callback of the oldest pending timer runs: setMessage(null)
TimeoutFires ==
    /\ timers # << >>
    /\ message' = NoMessage
    /\ timers' = Tail(timers)
    /\ UNCHANGED << calls, workflowVars, pokemons, sortOrder, view >>

NotifyNext ==
    \/ ShowMessageCall
    \/ TimeoutFires
    \/ DismissMessage

\* the event loop runs the callback of a timer that has expired
NotifySpec == Init /\ [][NotifyNext]_vars /\ WF_vars(TimeoutFires)

(***************************************************************************)
(* The display ordering (sortedPokemons, l.272-289) and the economy rules  *)
(* (getRarityResellValue l.14-26, rarityOrderMap l.28-37) as functions of  *)
(* their inputs.  Here a creature record also carries the two fields the   *)
(* comparators read, name and generatedAt; the handlers never read them.   *)
(***************************************************************************)
Sortable(id, name, rarity, generatedAt) ==
    [id |-> id, name |-> name, rarity |-> rarity, generatedAt |-> generatedAt,
     status |-> OWNED, evolution |-> 0]

\* the records collections are drawn from: each key has a tie
Pool ==
    { Sortable(1, "abra",  "C",  "2024-01-02T00:00:00.000Z"),
      Sortable(2, "Mew",   "S+", "2024-01-03T00:00:00.000Z"),
      Sortable(3, "Zubat", "F",  "2024-01-01T00:00:00.000Z"),
      Sortable(4, "Mew",   "C",  "2024-01-03T00:00:00.000Z") }

\* every collection of up to MaxLen distinct records of the pool, in every order
Collections ==
    UNION { { c \in [1..n -> Pool] :
                \A i, j \in 1..n : i # j => c[i].id # c[j].id } : n \in 0..MaxLen }

\* a value of sortOrder that is none of the six modes
UnrecognisedMode == "price-asc"

\* a rarity that is none of the eight tiers
UnmappedRarity == "?"

\* new Date(generatedAt).getTime(), in days since 2024-01-01
getTime(generatedAt) ==
    CASE generatedAt = "2024-01-01T00:00:00.000Z" -> 0
      [] generatedAt = "2024-01-02T00:00:00.000Z" -> 1
      [] generatedAt = "2024-01-03T00:00:00.000Z" -> 2

\* the names in the collation order of the locale (case does not come first)
NameOrder == << "abra", "Mew", "Zubat" >>

\* a.localeCompare(b): negative, zero or positive
localeCompare(a, b) ==
    LET ia == CHOOSE i \in 1..Len(NameOrder) : NameOrder[i] = a
        ib == CHOOSE i \in 1..Len(NameOrder) : NameOrder[i] = b
    IN  IF ia < ib THEN -1 ELSE IF ia > ib THEN 1 ELSE 0

\* the comparator the switch of l.274-288 selects; date-desc is also the default
compare(mode, a, b) ==
    CASE mode = "rarity-desc" -> rarityOrderMap(b.rarity) - rarityOrderMap(a.rarity)
      [] mode = "rarity-asc"  -> rarityOrderMap(a.rarity) - rarityOrderMap(b.rarity)
      [] mode = "name-asc"    -> localeCompare(a.name, b.name)
      [] mode = "name-desc"   -> localeCompare(b.name, a.name)
      [] mode = "date-asc"    -> getTime(a.generatedAt) - getTime(b.generatedAt)
      [] OTHER                -> getTime(b.generatedAt) - getTime(a.generatedAt)

\* x placed behind every element that does not compare greater than it
InsertSorted(mode, sorted, x) ==
    LET n   == Len(sorted)
        pos == IF \E i \in 1..n : compare(mode, sorted[i], x) > 0
               THEN (CHOOSE i \in 1..n :
                        /\ compare(mode, sorted[i], x) > 0
                        /\ \A j \in 1..(i - 1) : compare(mode, sorted[j], x) <= 0) - 1
               ELSE n
    IN  SubSeq(sorted, 1, pos) \o << x >> \o SubSeq(sorted, pos + 1, n)

\* Array.prototype.sort with a comparator: a stable sort
RECURSIVE ArraySort(_, _)
ArraySort(mode, array) ==
    IF array = << >> THEN << >>
    ELSE InsertSorted(mode, ArraySort(mode, SubSeq(array, 1, Len(array) - 1)),
                      array[Len(array)])

\* mutant of sortedPokemons: the copy is returned as it is
unsortedPokemons(collection, mode) == collection

\* l.272-289: const pokemonsToSort = [...pokemons]; switch (sortOrder) ...
sortedPokemons(collection, mode) == ArraySort(mode, collection)

\* rarityOrderMap[rarity]; -1 models undefined
RankOf(rarity) == IF rarity \in Rarities THEN rarityOrderMap(rarity) ELSE -1

\* the component holds a collection, in the initial sort mode (l.46), and
\* has rendered it
RenderInit ==
    /\ pokemons \in Collections
    /\ sortOrder = "date-desc"
    /\ view = [NoView EXCEPT !.sortedPokemons = sortedPokemons(pokemons, sortOrder)]
    /\ tokenBalance = 0
    /\ isLoading = FALSE
    /\ isGeneratingPokemon = FALSE
    /\ isGeneratingEvolutionForPokemonId = 0
    /\ message = NoMessage
    /\ isModalOpen = FALSE
    /\ modalTitle = ""
    /\ modalContent = 0
    /\ modalOnConfirm = NoClosure
    /\ isModalConfirmLoading = FALSE
    /\ pokemonToResellId = 0
    /\ dbPokemons = {pokemons[i] : i \in 1..Len(pokemons)}
    /\ dbBalance = 0
    /\ nextId = Cardinality(Pool) + 1
    /\ starts = 0
    /\ load = LoadDone
    /\ gen = GenIdle
    /\ genLog = << >>
    /\ evo = EmptyBag
    /\ resell = ResellIdle
    /\ storeFailed = FALSE
    /\ creditedIds = {}
    /\ timers = << >>
    /\ calls = 0

\* setSortOrder(value) (l.363) and the render that follows: the memo of
\* l.272-289 is recomputed because sortOrder changed
SelectSortOrder ==
    /\ \E mode \in SortModes \cup {UnrecognisedMode} :
         /\ mode # sortOrder
         /\ sortOrder' = mode
         /\ view' = [view EXCEPT !.sortedPokemons = sortedPokemons(pokemons, mode)]
    /\ UNCHANGED << workflowVars, pokemons, message, timers, calls >>

\* the economy rules applied to two rarities
EvalRarities ==
    /\ \E r1, r2 \in Rarities \cup {UnmappedRarity} :
         view' = [view EXCEPT
                    !.rarities = << r1, r2 >>,
                    !.resellValues = << getRarityResellValue(r1),
                                        getRarityResellValue(r2) >>,
                    !.ranks = << RankOf(r1), RankOf(r2) >>]
    /\ UNCHANGED << workflowVars, pokemons, sortOrder, message, timers, calls >>

RenderNext ==
    \/ SelectSortOrder
    \/ EvalRarities

RenderSpec == RenderInit /\ [][RenderNext]_vars

(***************************************************************************)
(* Properties.                                                             *)
(***************************************************************************)
MemWith(status) == {pokemons[i].id : i \in {j \in 1..Len(pokemons) : pokemons[j].status = status}}

DbWith(status) == {q.id : q \in {x \in dbPokemons : x.status = status}}

MemEvolved == {pokemons[i].id : i \in {j \in 1..Len(pokemons) : pokemons[j].evolution # 0}}

DbEvolved == {q.id : q \in {x \in dbPokemons : x.evolution # 0}}

\* no workflow is in flight and no dialog is pending
Quiet ==
    /\ load.pc = "done"
    /\ gen.pc = "idle"
    /\ resell.pc = "idle"
    /\ evo = EmptyBag
    /\ ~isModalOpen

\* the step in which a generation workflow settles after its rollback write
GenerateSettlesFailed == gen.pc = "rollback" /\ gen'.pc = "idle"

\* the step in which a generation workflow settles with every call succeeded
GenerateSettlesOk == gen.pc = "addPokemon" /\ gen'.pc = "idle"

\* the step in which handleGeneratePokemon is invoked
GenerateInvoked ==
    /\ gen.pc = "idle"
    /\ \/ gen'.pc # "idle"
       \/ /\ message' = Msg("warning", "insufficient")
          /\ message # message'

\* C1: when the generation client or the store write of the new record
\* raises after the debit, then at the step in which the workflow settles
\* the in-memory and the persisted balance both equal the balance read
\* before the debit, and the workflow's record is neither in the in-memory
\* collection nor in the store.
C1_FailedGenerationRestoresBalance ==
    [][ (GenerateSettlesFailed /\ gen.failedAt \in {"generatePokemon", "addPokemon"})
        => /\ tokenBalance' = gen.originalTokenBalance
           /\ dbBalance' = gen.originalTokenBalance
           /\ gen.newPokemon.id \notin Ids(pokemons')
           /\ gen.newPokemon.id \notin DbIds' ]_vars

\* C2: a creature that is resold (in the in-memory collection, in the
\* store) is not owned in the next state, whatever step is taken.
C2_ResoldIsTerminal ==
    [][ /\ MemWith(RESOLD) \cap MemWith(OWNED)' = {}
        /\ DbWith(RESOLD) \cap DbWith(OWNED)' = {} ]_vars

\* C3: in every reachable state the in-memory balance and the persisted
\* balance are integers greater than or equal to 0.
C3_BalancesNonNegative ==
    /\ tokenBalance \in Int /\ tokenBalance >= 0
    /\ dbBalance \in Int /\ dbBalance >= 0

\* C3 witness: a generation that debited the store down to 0 is rolling
\* back while a resell's balance write is pending.
C3_Witness ==
    /\ gen.pc = "rollback"
    /\ resell.pc = "updateTokenBalance"
    /\ dbBalance = 0

\* C4 as stated: a generation started at balance b whose calls all succeed
\* has written setBalance(b - 10) and then addCreature(new record) and
\* nothing else, settles with both balances at b - 10 and with the new
\* owned record inserted at the front of the in-memory collection, in every
\* sort mode; no other step of the workflow inserts a record.
C4_GenerationCommits_Original ==
    [][ /\ GenerateSettlesOk
           => /\ genLog = << <<"updateTokenBalance", gen.originalTokenBalance - 10>>,
                             <<"generatePokemon", 0>> >>
              /\ dbPokemons' = dbPokemons \cup {gen.newPokemon}
              /\ gen.newPokemon \notin dbPokemons
              /\ gen.originalTokenBalance >= 10
              /\ tokenBalance' = gen.originalTokenBalance - 10
              /\ dbBalance' = gen.originalTokenBalance - 10
              /\ gen.newPokemon.status = OWNED
              /\ pokemons' = << gen.newPokemon >> \o pokemons
              /\ gen.newPokemon.id \notin Ids(pokemons)
        /\ (gen.pc # "idle" /\ ~GenerateSettlesOk)
           => /\ Ids(pokemons') = Ids(pokemons)
              /\ DbIds' = DbIds ]_vars

\* C4 as amended: the same, with the final balances b - 10 claimed only
\* when no resell workflow committed its credit while the generation was
\* in flight.
C4_GenerationCommits ==
    [][ /\ GenerateSettlesOk
           => /\ genLog = << <<"updateTokenBalance", gen.originalTokenBalance - 10>>,
                             <<"generatePokemon", 0>> >>
              /\ dbPokemons' = dbPokemons \cup {gen.newPokemon}
              /\ gen.newPokemon \notin dbPokemons
              /\ gen.originalTokenBalance >= 10
              /\ ~gen.credited
                 => /\ tokenBalance' = gen.originalTokenBalance - 10
                    /\ dbBalance' = gen.originalTokenBalance - 10
              /\ gen.newPokemon.status = OWNED
              /\ pokemons' = << gen.newPokemon >> \o pokemons
              /\ gen.newPokemon.id \notin Ids(pokemons)
        /\ (gen.pc # "idle" /\ ~GenerateSettlesOk)
           => /\ Ids(pokemons') = Ids(pokemons)
              /\ DbIds' = DbIds ]_vars

\* C4 witness: under a sort mode other than the default, a generation has
\* just succeeded from balance 10: the new record heads a collection of
\* three and both balances are 0.
C4_Witness ==
    /\ message = Msg("success", "generated")
    /\ sortOrder = "name-asc"
    /\ Len(pokemons) = 3
    /\ pokemons[1].id = 3
    /\ pokemons[1].status = OWNED
    /\ pokemons[1] \in dbPokemons
    /\ tokenBalance = 0
    /\ dbBalance = 0
    /\ gen.pc = "idle"

\* C5: a step that invokes handleGeneratePokemon while the balance is below
\* 10 sets the warning notification and nothing else: no store write, no
\* client call, balances, collection, store and generating flag unchanged.
C5_InsufficientTokensNoEffect ==
    [][ (GenerateInvoked /\ tokenBalance < 10)
        => /\ message' = Msg("warning", "insufficient")
           /\ genLog' = << >>
           /\ UNCHANGED << tokenBalance, dbBalance, pokemons, dbPokemons,
                           isGeneratingPokemon, gen >> ]_vars

\* C5 witness: the warning is displayed, the balance is below the cost and
\* an evolution workflow is in flight.
C5_Witness ==
    /\ message = Msg("warning", "insufficient")
    /\ tokenBalance < GENERATION_COST
    /\ ~isGeneratingPokemon
    /\ evo # EmptyBag

\* the step in which onConfirmAction is invoked (the dialog's Resell button)
ResellConfirmed == resell.pc = "idle" /\ resell'.pc = "updatePokemon"

\* the step in which a resell commits: its second store write has succeeded
ResellCommits ==
    /\ resell.pc = "updateTokenBalance"
    /\ resell'.pc = "idle"
    /\ message' = Msg("success", "resold")

\* C6: the record a confirmed resell marks resold is the creature's record
\* in the in-memory collection at confirmation time, and when the resell
\* commits, the in-memory and the persisted record are the then current
\* in-memory record with only its status changed, so an evolution attached
\* while the confirmation was pending is still there.
C6_ResellUsesCurrentRecord ==
    [][ /\ ResellConfirmed
           => resell'.updatedPokemon = ResoldPokemon(Find(pokemons, pokemonToResellId))
        /\ ResellCommits
           => /\ Find(pokemons', pokemonToResellId)
                   = ResoldPokemon(Find(pokemons, pokemonToResellId))
              /\ \E q \in dbPokemons' :
                   q = ResoldPokemon(Find(pokemons, pokemonToResellId)) ]_vars

\* C7: a creature that has an evolution in memory has one in memory in the
\* next state, and a creature that has one in the store has one in the store
\* in the next state.
C7_EvolutionNeverLost ==
    [][ /\ MemEvolved \subseteq MemEvolved'
        /\ DbEvolved \subseteq DbEvolved' ]_vars

\* C8: when a confirmed resell commits, the store holds the record as
\* resold and the balance at confirmation time plus the resale value of the
\* creature's rarity, the in-memory record is resold and the in-memory
\* balance is the balance at confirmation time plus that value; the steps of
\* the resell before the commit leave the in-memory collection and balance
\* unchanged.
C8_ResellCreditsConfirmBalance ==
    [][ /\ ResellCommits
           => /\ resell.updatedPokemon.status = RESOLD
              /\ resell.updatedPokemon \in dbPokemons
              /\ Find(pokemons', pokemonToResellId).status = RESOLD
              /\ dbBalance' = resell.confirmBalance
                                + getRarityResellValue(resell.updatedPokemon.rarity)
              /\ tokenBalance' = resell.confirmBalance
                                + getRarityResellValue(resell.updatedPokemon.rarity)
        /\ (resell' # resell /\ ~ResellCommits)
           => UNCHANGED << pokemons, tokenBalance >> ]_vars

\* C9: when a resell whose closure holds the same balance as the one an
\* in-flight generation read at its start commits after that generation's
\* debit was persisted, the store held that balance less the cost and now
\* holds that balance plus the resale value: the committed debit is not
\* reflected in the balance.
C9_StaleBaseLosesDebit ==
    [][ ( /\ ResellCommits
          /\ gen.pc \in {"generatePokemon", "addPokemon"}
          /\ ~gen.credited
          /\ modalOnConfirm.tokenBalance = gen.originalTokenBalance )
        => /\ dbBalance = gen.originalTokenBalance - GENERATION_COST
           /\ dbBalance' = gen.originalTokenBalance
                             + getRarityResellValue(resell.updatedPokemon.rarity)
           /\ tokenBalance' = dbBalance' ]_vars

\* one generation and one resell, started from the same balance, have both
\* committed with every call succeeded, and the balance misses the debit
C9_Witness ==
    /\ Quiet
    /\ starts = 1
    /\ Cardinality(dbPokemons) = 3
    /\ DbWith(RESOLD) = {1}
    /\ Len(pokemons) = 3
    /\ tokenBalance = dbBalance
    /\ dbBalance = 10 + getRarityResellValue("A")

\* C10: every creature with an evolution workflow in flight has its controls
\* disabled, and every creature with none has them enabled.
C10_InFlightControlsDisabled ==
    /\ \A e \in BagToSet(evo) : ControlDisabled(e.pokemon.id)
    /\ \A i \in 1..Len(pokemons) :
         (\A e \in BagToSet(evo) : e.pokemon.id # pokemons[i].id)
         => ~ControlDisabled(pokemons[i].id)

\* the step in which an evolution workflow settles with every call succeeded
EvolveSettlesOk ==
    /\ BagCardinality(evo') < BagCardinality(evo)
    /\ message' = Msg("success", "evolved")

\* the step in which an evolution workflow settles after a call raised or
\* the text response did not parse
EvolveSettlesFailed ==
    /\ BagCardinality(evo') < BagCardinality(evo)
    /\ message' = Msg("error", "evolveFailed")

\* C11: every step of an evolution workflow other than its successful last
\* one, and so the step in which it fails at the text call, the parse, the
\* image call or the store update, leaves the in-memory collection and the
\* store unchanged: the creature's record is unmodified in both and a
\* workflow failing before its store update has written nothing.
C11_FailedEvolutionNoEffect ==
    [][ /\ (evo' # evo /\ ~EvolveSettlesOk)
           => UNCHANGED << pokemons, dbPokemons, dbBalance >>
        /\ BagCardinality(evo') < BagCardinality(evo)
           => (EvolveSettlesOk \/ EvolveSettlesFailed) ]_vars

\* C11 witness: the only evolution started has failed; no record, in memory
\* or in the store, carries an evolution.
C11_Witness ==
    /\ message = Msg("error", "evolveFailed")
    /\ evo = EmptyBag
    /\ starts = 1
    /\ gen.pc = "idle"
    /\ Len(pokemons) = 2
    /\ MemEvolved = {}
    /\ DbEvolved = {}

\* C12: the step in which the evolution of creature X succeeds writes X's
\* record with the evolution attached to the store and nothing else, keeps
\* the length of the in-memory collection, replaces the record at X's
\* position by that record, leaves every other position as it was and
\* leaves both balances unchanged; the earlier steps of the workflow write
\* nothing to the store.
C12_EvolutionFrame ==
    [][ /\ \A e \in BagToSet(evo) :
             (e.pc = "updatePokemon" /\ evo' = EvoSettle(e) /\ EvolveSettlesOk)
             => /\ [e.pokemon EXCEPT !.evolution = 1] \in dbPokemons'
                /\ {q \in dbPokemons' : q.id # e.pokemon.id}
                     = {q \in dbPokemons : q.id # e.pokemon.id}
                /\ Cardinality(dbPokemons') = Cardinality(dbPokemons)
                /\ Len(pokemons') = Len(pokemons)
                /\ \A i \in 1..Len(pokemons) :
                     IF pokemons[i].id = e.pokemon.id
                     THEN pokemons'[i] = [e.pokemon EXCEPT !.evolution = 1]
                     ELSE pokemons'[i] = pokemons[i]
                /\ UNCHANGED << tokenBalance, dbBalance >>
        /\ (BagCardinality(evo') >= BagCardinality(evo) /\ evo' # evo)
           => UNCHANGED storeVars ]_vars

\* C12 witness: the evolution of the second creature has succeeded; the
\* first record is in place without an evolution and the balances agree.
C12_Witness ==
    /\ message = Msg("success", "evolved")
    /\ evo = EmptyBag
    /\ Len(pokemons) = 2
    /\ pokemons[1].id = 1
    /\ MemEvolved = {2}
    /\ DbEvolved = {2}
    /\ tokenBalance = dbBalance

\* the step in which a confirmed resell settles, committed or failed
ResellSettles == resell.pc # "idle" /\ resell'.pc = "idle"

ResellOpened == ~isModalOpen /\ isModalOpen'

\* the step in which the confirmation is closed without having been confirmed
ResellCancelled == isModalOpen /\ ~isModalOpen' /\ resell.pc = "idle"

\* C14: the step that opens the resell confirmation and the step that
\* closes it unconfirmed leave the in-memory collection and balance and the
\* store's collection and balance unchanged and start no store call, and
\* after the closing step the open flag, the title, the content, the confirm
\* action, the busy flag and the pending identity have their initial values.
C14_CancelledResellNoEffect ==
    [][ /\ (ResellOpened \/ ResellCancelled)
           => /\ UNCHANGED << pokemons, tokenBalance, dbPokemons, dbBalance >>
              /\ resell' = ResellIdle
        /\ ResellCancelled
           => /\ isModalOpen' = FALSE
              /\ modalTitle' = ""
              /\ modalContent' = 0
              /\ modalOnConfirm' = NoClosure
              /\ isModalConfirmLoading' = FALSE
              /\ pokemonToResellId' = 0 ]_vars

\* C14 witness: the confirmation for the second creature is open and not
\* confirmed, with its closure built, while memory and store agree.
C14_Witness ==
    /\ isModalOpen
    /\ ~isModalConfirmLoading
    /\ resell.pc = "idle"
    /\ pokemonToResellId = 2
    /\ modalOnConfirm.set
    /\ modalContent = getRarityResellValue("S+")
    /\ tokenBalance = dbBalance
    /\ MemWith(RESOLD) = {}
    /\ DbWith(RESOLD) = {}

\* the step in which an evolution workflow settles on a failed call: it was
\* awaiting the text or the image call, or its record is not in the store
EvolveCallFailed ==
    \E e \in BagToSet(evo) :
        /\ evo' = EvoSettle(e)
        /\ \/ e.pc \in {"generateContent", "generateImages"}
           \/ [e.pokemon EXCEPT !.evolution = 1] \notin dbPokemons'

\* the step in which a resell settles on a failed call: it was awaiting the
\* record write, or the creature is still owned in memory
ResellCallFailed ==
    /\ ResellSettles
    /\ \/ resell.pc = "updatePokemon"
       \/ Find(pokemons', pokemonToResellId).status = OWNED

\* C15: a generation, evolution or resell workflow in which a store or
\* client call failed settles with the error notification of that workflow
\* shown, also when the failed call is the debit write or the rollback
\* write of a generation.
C15_EveryFailureNotified ==
    [][ /\ GenerateSettlesFailed => message' = Msg("error", "refunded")
        /\ EvolveCallFailed => message' = Msg("error", "evolveFailed")
        /\ ResellCallFailed => message' = Msg("error", "resellFailed") ]_vars

\* the load has finished and no generation, evolution or resell is in flight
NoWorkflowInFlight ==
    /\ load.pc = "done"
    /\ gen.pc = "idle"
    /\ resell.pc = "idle"
    /\ evo = EmptyBag

\* C20: in every reachable state in which no workflow is in flight and no
\* store call has raised so far, the in-memory balance equals the persisted
\* balance and every record of the in-memory collection is the record the
\* store holds under the same identity.
C20_MemoryMirrorsStore ==
    (NoWorkflowInFlight /\ ~storeFailed)
    => /\ tokenBalance = dbBalance
       /\ \A i \in 1..Len(pokemons) : pokemons[i] \in dbPokemons

\* C17: while a notification is shown the timer of the call that showed it
\* is pending, and under fair scheduling of the timer callbacks alone (no
\* dismissal is required) the notification shown by the k-th showMessage
\* call is eventually cleared unless a newer call replaces it.
C17_NotificationEventuallyCleared ==
    /\ [](message # NoMessage
           => (timers # << >> /\ timers[Len(timers)] = calls))
    /\ \A k \in 1..MaxCalls :
         (calls = k /\ message # NoMessage)
         ~> (message = NoMessage \/ calls > k)

\* C17 witness: two notifications were shown, every timer has fired and the
\* message is null.
C17_Witness ==
    /\ calls = 2
    /\ timers = << >>
    /\ message = NoMessage

\* C19: a step that changes or clears the displayed notification is a newer
\* showMessage call, a dismissal, or the timeout of the call that showed
\* it; the timeout of an earlier call leaves it displayed.
C19_OnlyOwnTimeoutClears ==
    [][ (message # NoMessage /\ message' # message)
        => \/ calls' > calls
           \/ timers' = timers
           \/ /\ timers' = Tail(timers)
              /\ Head(timers) = calls ]_vars

\* the records of the two sequences are the same, each as many times
IsPermutation(s, t) ==
    /\ Len(s) = Len(t)
    /\ \A p \in Pool :
         Cardinality({i \in 1..Len(s) : s[i] = p})
           = Cardinality({i \in 1..Len(t) : t[i] = p})

\* a comes no later than b by the key of the mode
KeyInOrder(mode, a, b) ==
    CASE mode = "date-asc"    -> getTime(a.generatedAt) <= getTime(b.generatedAt)
      [] mode = "rarity-desc" -> rarityOrderMap(a.rarity) >= rarityOrderMap(b.rarity)
      [] mode = "rarity-asc"  -> rarityOrderMap(a.rarity) <= rarityOrderMap(b.rarity)
      [] mode = "name-asc"    -> localeCompare(a.name, b.name) <= 0
      [] mode = "name-desc"   -> localeCompare(a.name, b.name) >= 0
      [] OTHER                -> getTime(a.generatedAt) >= getTime(b.generatedAt)

\* C16: the mode is date-desc initially; in every state the displayed
\* sequence is a permutation of the in-memory collection in which each
\* record comes no later than every record behind it by the key of the
\* mode (the date-desc key for an unrecognised mode); and no step of the
\* display ordering changes the in-memory collection.
C16_DisplayOrdering ==
    /\ sortOrder = "date-desc"
    /\ [](/\ IsPermutation(view.sortedPokemons, pokemons)
          /\ \A i, j \in 1..Len(view.sortedPokemons) :
               i < j => KeyInOrder(sortOrder, view.sortedPokemons[i],
                                   view.sortedPokemons[j]))
    /\ [][pokemons' = pokemons]_vars

\* C16 witness: a collection of three in name-desc order is displayed in
\* another order than it is held: Zubat first, abra last.
C16_Witness ==
    /\ sortOrder = "name-desc"
    /\ Len(pokemons) = 3
    /\ pokemons[1].name = "abra"
    /\ view.sortedPokemons[1].name = "Zubat"
    /\ view.sortedPokemons[3].name = "abra"

\* the resale values the claim lists
ResaleTable ==
    [r \in Rarities |->
        CASE r = "S+" -> 25 [] r = "S" -> 15 [] r = "A" -> 10 [] r = "B" -> 5
          [] r = "C" -> 4 [] r = "D" -> 3 [] r = "E" -> 2 [] r = "F" -> 1]

\* the tiers from the lowest to the highest
TierOrder == << "F", "E", "D", "C", "B", "A", "S", "S+" >>

\* C18: the resale value computed for a tier is the listed one and 1 for
\* any other input; the rank computed for the i-th tier from the lowest is
\* i - 1; and of two tiers the one of lower rank has the lower resale value.
C18_EconomyTables ==
    \A n \in 1..Len(view.rarities) :
       LET r == view.rarities[n]
       IN  /\ view.resellValues[n] = IF r \in Rarities THEN ResaleTable[r] ELSE 1
           /\ \A i \in 1..Len(TierOrder) : r = TierOrder[i] => view.ranks[n] = i - 1
           /\ \A m \in 1..Len(view.rarities) :
                ( /\ r \in Rarities
                  /\ view.rarities[m] \in Rarities
                  /\ view.ranks[n] < view.ranks[m] )
                => view.resellValues[n] < view.resellValues[m]

\* C18 witness: an unmapped rarity and the tier B have been evaluated.
C18_Witness ==
    /\ view.rarities = << UnmappedRarity, "B" >>
    /\ view.resellValues = << 1, 5 >>
    /\ view.ranks[2] = 4

\* C21: a resell commits, and so adds its credit to the balance, only for a
\* creature that no earlier committed resell has credited.
C21_CreditedAtMostOnce ==
    [][ ResellCommits => resell.updatedPokemon.id \notin creditedIds ]_vars

\* C22: in every state a kind of workflow with none in flight has its flag
\* clear (generating flag false, evolution marker null, busy flag false),
\* and, every awaited call eventually returning or raising, a generation,
\* a resell and the evolutions in flight eventually settle.
C22_WorkflowsSettle ==
    /\ []( /\ gen.pc = "idle" => ~isGeneratingPokemon
           /\ evo = EmptyBag => isGeneratingEvolutionForPokemonId = 0
           /\ resell.pc = "idle" => ~isModalConfirmLoading )
    /\ (gen.pc # "idle") ~> (gen.pc = "idle")
    /\ (evo # EmptyBag) ~> (evo = EmptyBag)
    /\ (resell.pc # "idle") ~> (resell.pc = "idle")

\* C22 witness: a generation that failed and rolled back, an evolution and a
\* resell have all settled and the three flags are clear.
C22_Witness ==
    /\ NoWorkflowInFlight
    /\ starts = 2
    /\ creditedIds # {}
    /\ DbEvolved # {}
    /\ message = Msg("error", "refunded")
    /\ ~isGeneratingPokemon
    /\ isGeneratingEvolutionForPokemonId = 0
    /\ ~isModalConfirmLoading

====
